---- MODULE Spec2Model ----
(***************************************************************************)
(* gh-release-notifier: one invocation of main() loads the state file,     *)
(* walks cfg.repos in order (fetch latest release, skip drafts, record the *)
(* snapshot, compare with the previous entry, POST to the webhook), and    *)
(* rewrites the state file once after the loop.  An external scheduler     *)
(* re-invokes the process; the state file is the only thing that survives. *)
(***************************************************************************)
EXTENDS Integers, Sequences, FiniteSets, TLC

\* ---- bounds ----
MaxRepos == 2      \* longest configured repository list
MaxTime  == 2      \* publication instants 1..MaxTime; release t is published at t
MaxRuns  == 3      \* process invocations explored

Repos == {"a/a", "b/b"}

\* ---- values ----
None == [none |-> TRUE]      \* Python None / missing dict key

\* `x or y` on strings: an absent (None) or empty string is falsy.
Or(x, y) == IF x # <<>> THEN x ELSE y

\* Metadata the source attaches to a release id.  Odd ids carry no separate
\* name (release.name is None), so the tag name has to stand in for it.
TagOf(id)  == <<"v", id>>
UrlOf(id)  == <<"https://github.com/releases", id>>
NameOf(id) == IF id % 2 = 1 THEN <<>> ELSE <<"Release", id>>

\* What repo.get_latest_release() can return.
Release(id, t, d) ==
    [id |-> id, html_url |-> UrlOf(id), tag_name |-> TagOf(id),
     name |-> NameOf(id), published_at |-> t, draft |-> d]

\* A release that carries the timestamp of release 1 under another id (the
\* source republished with an identical timestamp).
Republished == Release(MaxTime + 1, 1, FALSE)

Releases == {Release(t, t, d) : t \in 1..MaxTime, d \in BOOLEAN} \cup {Republished}

RECURSIVE SeqsUpTo(_, _)
SeqsUpTo(S, n) ==
    IF n = 0 THEN {<<>>}
    ELSE LET shorter == SeqsUpTo(S, n - 1)
         IN  shorter \cup {Append(s, e) : s \in {q \in shorter : Len(q) = n - 1}, e \in S}

\* Resolved settings: repos (order = processing order), skip_draft, and
\* whether a webhook is configured.  The two repository names are
\* interchangeable, so the list is taken to start with "a/a".
Settings ==
    [repos : {q \in SeqsUpTo(Repos, MaxRepos) : q # <<>> /\ q[1] = "a/a"},
     skip_draft : BOOLEAN, webhook : BOOLEAN]

\* ---- the State model and the state file ----

\* Variant: the name is stored as fetched, without the tag_name fallback.
NewStateNoFallback(release) ==
    [id |-> release.id, html_url |-> release.html_url, tag_name |-> release.tag_name,
     name |-> release.name, published_at |-> release.published_at]

\* State(id=..., html_url=..., tag_name=..., name=release.name or
\* release.tag_name, published_at=...)
NewState(release) ==
    [id |-> release.id, html_url |-> release.html_url, tag_name |-> release.tag_name,
     name |-> Or(release.name, release.tag_name), published_at |-> release.published_at]

\* state_file.states.get(repo_name)
Get(states, repo_name) ==
    IF repo_name \in DOMAIN states THEN states[repo_name] ELSE None

\* Variant: the map is rebuilt around the one entry, dropping the other keys.
PutAlone(states, repo_name, st) == [r \in {repo_name} |-> st]

\* state_file.states[repo_name] = st
Put(states, repo_name, st) ==
    [r \in DOMAIN states \cup {repo_name} |-> IF r = repo_name THEN st ELSE states[r]]

\* model_dump() + yaml.safe_dump: the document is one mapping entry per key,
\* each a flat row of the five persisted fields.
Dump(states) ==
    {<<r, states[r].id, states[r].html_url, states[r].tag_name,
       states[r].name, states[r].published_at>> : r \in DOMAIN states}

\* yaml.safe_load + StateFile(**obj)
Parse(doc) ==
    [r \in {row[1] : row \in doc} |->
        LET row == CHOOSE w \in doc : w[1] = r
        IN  [id |-> row[2], html_url |-> row[3], tag_name |-> row[4],
             name |-> row[5], published_at |-> row[6]]]

EmptyStates == [r \in {} |-> None]

Absent     == [kind |-> "absent"]
Corrupt    == [kind |-> "corrupt"]
Document(doc) == [kind |-> "ok", doc |-> doc]

\* A state file left behind by an earlier run (possibly under another repos
\* list): every key either missing or holding release 1 published at 1.
OldStates == {[r \in K |-> NewState(Release(1, 1, FALSE))] : K \in SUBSET Repos}

\* ---- decisions of the loop body ----

\* Variant: the draft test is inverted.
SkipDraftInverted(cfg, release) == cfg.skip_draft /\ ~release.draft

\* if cfg.skip_draft and release.draft: continue
SkipDraft(cfg, release) == cfg.skip_draft /\ release.draft

\* Variant: the comparison is strict, an equal timestamp counts as new.
NoNewStrict(prev_state, release) ==
    prev_state # None /\ prev_state.published_at > release.published_at

\* if prev_state and prev_state.published_at >= release.published_at: continue
NoNew(prev_state, release) ==
    prev_state # None /\ prev_state.published_at >= release.published_at

Aborted == {"load_failed", "fetch_failed"}

\* The repository whose notifications are followed from run to run, where
\* they are followed at all.
Watched == "a/a"
Untracked == [untracked |-> TRUE]

VARIABLES
    cfg,          \* Settings()
    file,         \* content of cfg.state_file on disk
    pc,           \* "load" | "loop" | "dump" | "done" | "killed", or the
                  \* uncaught exception that ended main(): "load_failed" |
                  \* "fetch_failed"
    i,            \* position of the for loop in cfg.repos (1-based)
    states,       \* state_file.states
    posts,        \* httpx.post calls of this run, in order
    run,          \* number of the current invocation
    writes,       \* completed rewrites of the state file in this run
    prevFile,     \* the state file as this run found it
    lastFetched,  \* per repository: the release the last successful fetch returned
    sameUpstream, \* the run before completed and every fetch of this run
                  \* returned what that run saw
    undelivered,  \* per repository: the delivery for lastFetched failed
    savedSince,   \* per repository: ... and a run has saved its state since
    draftInterval,\* per repository: the open or just closed interval of skipped
                  \* drafts, with the entry the map held when it opened
    render,\* the content template being rendered (lines 134-146), or None
    visits,\* per repository: runs of the loop body for it in this run
    notified      \* Untracked, or the release last posted for "a/a" by a
                  \* completed run that had found an entry for it, and whether
                  \* an older release has been fetched since

vars == <<cfg, file, pc, i, states, posts, run, writes, prevFile, lastFetched,
          sameUpstream, undelivered, savedSince,
          draftInterval,
          render,
          visits,
          notified>>

hist == <<run, prevFile, render>>

Init ==
    /\ cfg \in Settings
    /\ file \in {Absent, Corrupt} \cup {Document(Dump(s)) : s \in OldStates}
    /\ pc = "load"
    /\ i = 1
    /\ states = EmptyStates
    /\ posts = <<>>
    /\ run = 1
    /\ writes = 0
    /\ prevFile = file
    /\ lastFetched = [r \in Repos |-> None]
    /\ sameUpstream = FALSE
    /\ undelivered = [r \in Repos |-> FALSE]
    /\ savedSince = [r \in Repos |-> FALSE]
    /\ draftInterval = [r \in Repos |-> None]
    /\ render = None
    /\ visits = [r \in Repos |-> 0]
    /\ notified = Untracked

\* ---- load (main, lines 94-100) ----

LoadOk ==
    /\ pc = "load"
    /\ file.kind = "ok"
    /\ states' = Parse(file.doc)
    /\ pc' = "loop"
    /\ UNCHANGED <<cfg, file, i, posts, writes, lastFetched, sameUpstream,
                   undelivered, savedSince, hist,
                   draftInterval,
                   visits,
                   notified>>

LoadAbsent ==
    /\ pc = "load"
    /\ file.kind = "absent"
    /\ states' = EmptyStates
    /\ pc' = "loop"
    /\ UNCHANGED <<cfg, file, i, posts, writes, lastFetched, sameUpstream,
                   undelivered, savedSince, hist,
                   draftInterval,
                   visits,
                   notified>>

\* Variant: an unparseable file is treated like a missing one.
LoadCorruptAsEmpty ==
    /\ pc = "load"
    /\ file.kind = "corrupt"
    /\ states' = EmptyStates
    /\ pc' = "loop"
    /\ UNCHANGED <<cfg, file, i, posts, writes, lastFetched, sameUpstream,
                   undelivered, savedSince, hist,
                   draftInterval,
                   visits,
                   notified>>

\* yaml.safe_load or StateFile(**obj) raises: main() ends with the exception.
LoadCorrupt ==
    /\ pc = "load"
    /\ file.kind = "corrupt"
    /\ pc' = "load_failed"
    /\ UNCHANGED <<cfg, file, i, states, posts, writes, lastFetched, sameUpstream,
                   undelivered, savedSince, hist,
                   draftInterval,
                   visits,
                   notified>>

\* ---- one iteration of the for loop (main, lines 102-159) ----

InLoop == pc = "loop" /\ i <= Len(cfg.repos)

repo_name == cfg.repos[i]

\* The skipped-draft interval of cfg.repos[i] after a fetch returned rel:
\* it opens with the entry the map holds when the first draft is skipped,
\* stays open while drafts are skipped, and is closed by the fetch after it.
Interval(d, rel) ==
    LET open == d # None /\ d.during IN
    IF cfg.skip_draft /\ rel.draft
    THEN IF open THEN d
         ELSE [during |-> TRUE, entry |-> Get(states, repo_name)]
    ELSE IF open THEN [during |-> FALSE, entry |-> d.entry]
         ELSE None

\* release = repo.get_latest_release() returned rel.
Observe(rel) ==
    /\ lastFetched' = [lastFetched EXCEPT ![repo_name] = rel]
    /\ draftInterval' = [draftInterval EXCEPT ![repo_name] = Interval(@, rel)]
    /\ visits' = [visits EXCEPT ![repo_name] = @ + 1]
    /\ notified' = IF /\ repo_name = Watched /\ notified \notin {None, Untracked}
                       /\ ~(cfg.skip_draft /\ rel.draft)
                       /\ rel.published_at < notified.published_at
                    THEN [notified EXCEPT !.dipped = TRUE]
                    ELSE notified
    /\ sameUpstream' = (sameUpstream /\ rel = lastFetched[repo_name])

\* No post in this iteration: a failed delivery stays on record only while
\* the same release keeps coming back.
NoPost(rel) ==
    IF rel = lastFetched[repo_name]
    THEN UNCHANGED <<undelivered, savedSince>>
    ELSE /\ undelivered' = [undelivered EXCEPT ![repo_name] = FALSE]
         /\ savedSince' = [savedSince EXCEPT ![repo_name] = FALSE]

\* httpx.post(cfg.webhook.url, ...) for rel, and whether it went through.
Post(rel, ok) ==
    /\ posts' = Append(posts, [repo |-> repo_name, id |-> rel.id,
                               published_at |-> rel.published_at, ok |-> ok])
    /\ undelivered' = [undelivered EXCEPT ![repo_name] = ~ok]
    /\ savedSince' = [savedSince EXCEPT ![repo_name] = FALSE]

\* repo.get_latest_release() raises (no release, not found, transport error);
\* nothing in main() catches it.
FetchFailed ==
    /\ InLoop
    /\ pc' = "fetch_failed"
    /\ UNCHANGED <<cfg, file, i, states, posts, writes, lastFetched, sameUpstream,
                   undelivered, savedSince, hist,
                   visits,
                   notified>>
    /\ draftInterval' = [r \in Repos |-> None]

\* Variant: the skipped draft is written to the state map all the same.
DraftRecorded ==
    /\ InLoop
    /\ \E rel \in Releases :
        /\ SkipDraft(cfg, rel)
        /\ states' = Put(states, repo_name, NewState(rel))
        /\ Observe(rel)
        /\ NoPost(rel)
    /\ i' = i + 1
    /\ UNCHANGED <<cfg, file, pc, posts, writes, hist>>

DraftSkipped ==
    /\ InLoop
    /\ \E rel \in Releases :
        /\ SkipDraft(cfg, rel)
        /\ Observe(rel)
        /\ NoPost(rel)
    /\ i' = i + 1
    /\ UNCHANGED <<cfg, file, pc, states, posts, writes, hist>>

\* Variant: the loop does not move on and takes the same repository again.
NoNewReleaseAgain ==
    /\ InLoop
    /\ \E rel \in Releases :
        /\ ~SkipDraft(cfg, rel)
        /\ NoNew(Get(states, repo_name), rel)
        /\ states' = Put(states, repo_name, NewState(rel))
        /\ Observe(rel)
        /\ NoPost(rel)
    /\ UNCHANGED <<cfg, file, pc, i, posts, writes, hist>>

NoNewRelease ==
    /\ InLoop
    /\ \E rel \in Releases :
        /\ ~SkipDraft(cfg, rel)
        /\ NoNew(Get(states, repo_name), rel)
        /\ states' = Put(states, repo_name, NewState(rel))
        /\ Observe(rel)
        /\ NoPost(rel)
    /\ i' = i + 1
    /\ UNCHANGED <<cfg, file, pc, posts, writes, hist>>

\* Variant: without a webhook the iteration is left before the entry is written.
NewReleaseNoWebhookUnrecorded ==
    /\ InLoop
    /\ ~cfg.webhook
    /\ \E rel \in Releases :
        /\ ~SkipDraft(cfg, rel)
        /\ ~NoNew(Get(states, repo_name), rel)
        /\ Observe(rel)
        /\ NoPost(rel)
    /\ i' = i + 1
    /\ UNCHANGED <<cfg, file, pc, states, posts, writes, hist>>

NewReleaseNoWebhook ==
    /\ InLoop
    /\ ~cfg.webhook
    /\ \E rel \in Releases :
        /\ ~SkipDraft(cfg, rel)
        /\ ~NoNew(Get(states, repo_name), rel)
        /\ states' = Put(states, repo_name, NewState(rel))
        /\ Observe(rel)
        /\ NoPost(rel)
    /\ i' = i + 1
    /\ UNCHANGED <<cfg, file, pc, posts, writes, hist>>

\* httpx.post returned and raise_for_status() passed.
NotifySent ==
    /\ InLoop
    /\ cfg.webhook
    /\ \E rel \in Releases :
        /\ ~SkipDraft(cfg, rel)
        /\ ~NoNew(Get(states, repo_name), rel)
        /\ states' = Put(states, repo_name, NewState(rel))
        /\ Observe(rel)
        /\ Post(rel, TRUE)
    /\ i' = i + 1
    /\ UNCHANGED <<cfg, file, pc, writes, hist>>

\* Variant: the state entry is only written once the delivery succeeded.
NotifyFailedUnrecorded ==
    /\ InLoop
    /\ cfg.webhook
    /\ \E rel \in Releases :
        /\ ~SkipDraft(cfg, rel)
        /\ ~NoNew(Get(states, repo_name), rel)
        /\ Observe(rel)
        /\ Post(rel, FALSE)
    /\ i' = i + 1
    /\ UNCHANGED <<cfg, file, pc, states, writes, hist>>

\* httpx.post or raise_for_status() raised; `except Exception` logs it.
NotifyFailed ==
    /\ InLoop
    /\ cfg.webhook
    /\ \E rel \in Releases :
        /\ ~SkipDraft(cfg, rel)
        /\ ~NoNew(Get(states, repo_name), rel)
        /\ states' = Put(states, repo_name, NewState(rel))
        /\ Observe(rel)
        /\ Post(rel, FALSE)
    /\ i' = i + 1
    /\ UNCHANGED <<cfg, file, pc, writes, hist>>

\* ---- dump (main, lines 161-164) ----

\* Variant: the dump sits inside the loop body and runs after any iteration.
SaveOpenEarly ==
    /\ pc = "loop"
    /\ i > 1
    /\ file' = Corrupt
    /\ pc' = "dump"
    /\ UNCHANGED <<cfg, i, states, posts, writes, lastFetched, sameUpstream,
                   undelivered, savedSince, hist,
                   draftInterval,
                   visits,
                   notified>>

\* cfg.state_file.open("w"): the file is truncated before anything is written.
SaveOpen ==
    /\ pc = "loop"
    /\ i > Len(cfg.repos)
    /\ file' = Corrupt
    /\ pc' = "dump"
    /\ UNCHANGED <<cfg, i, states, posts, writes, lastFetched, sameUpstream,
                   undelivered, savedSince, hist,
                   draftInterval,
                   visits,
                   notified>>

\* The last post of this run for repository r.
LastPost(r) ==
    posts[CHOOSE k \in 1..Len(posts) :
            posts[k].repo = r /\ \A j \in (k + 1)..Len(posts) : posts[j].repo # r]

\* The run completes: its last post for the watched repository goes on
\* record, when the run had found an entry stored for that repository.
\* dipped: the entry the run leaves is older than the release it posted.
Notified ==
    IF /\ notified # Untracked
       /\ \E k \in 1..Len(posts) : posts[k].repo = Watched
       /\ prevFile.kind = "ok" /\ Watched \in DOMAIN Parse(prevFile.doc)
    THEN [id |-> LastPost(Watched).id,
          published_at |-> LastPost(Watched).published_at,
          dipped |-> states[Watched].published_at < LastPost(Watched).published_at]
    ELSE notified

\* Variant: the dump writes back the map as it was loaded.
SaveDumpLoaded ==
    /\ pc = "dump"
    /\ file' = IF prevFile.kind = "ok" THEN prevFile ELSE Document(Dump(EmptyStates))
    /\ writes' = writes + 1
    /\ pc' = "done"
    /\ savedSince' = undelivered
    /\ notified' = Notified
    /\ UNCHANGED <<cfg, i, states, posts, lastFetched, sameUpstream, undelivered, hist,
                   draftInterval,
                   visits>>

\* yaml.safe_dump(obj, f, ...) and the close of the file.
SaveDump ==
    /\ pc = "dump"
    /\ notified' = Notified
    /\ file' = Document(Dump(states))
    /\ writes' = writes + 1
    /\ pc' = "done"
    /\ savedSince' = undelivered
    /\ UNCHANGED <<cfg, i, states, posts, lastFetched, sameUpstream, undelivered, hist,
                   draftInterval,
                   visits>>

\* ---- the process and its scheduler ----

\* The process is terminated while main() is running: its memory is gone,
\* the file stays as it is at that moment.
Terminate ==
    /\ pc \in {"load", "loop", "dump"}
    /\ pc' = "killed"
    /\ i' = 1
    /\ states' = EmptyStates
    /\ posts' = <<>>
    /\ UNCHANGED <<cfg, file, writes, lastFetched, sameUpstream, undelivered,
                   savedSince, hist>>
    /\ draftInterval' = [r \in Repos |-> None]
    /\ visits' = [r \in Repos |-> 0]
    /\ UNCHANGED notified

\* The external scheduler invokes the tool again: nothing but the file survives.
NextRun ==
    /\ pc \in {"done", "killed"} \cup Aborted
    /\ run < MaxRuns
    /\ run' = run + 1
    /\ prevFile' = file
    /\ sameUpstream' = (pc = "done")
    /\ pc' = "load"
    /\ i' = 1
    /\ states' = EmptyStates
    /\ posts' = <<>>
    /\ writes' = 0
    /\ UNCHANGED <<cfg, file, lastFetched, undelivered, savedSince,
                   draftInterval, render>>
    /\ visits' = [r \in Repos |-> 0]
    /\ UNCHANGED notified

Next ==
    \/ LoadOk
    \/ LoadAbsent
    \/ LoadCorrupt
    \/ FetchFailed
    \/ DraftSkipped
    \/ NoNewRelease
    \/ NewReleaseNoWebhook
    \/ NotifySent
    \/ NotifyFailed
    \/ SaveOpen
    \/ SaveDump
    \/ Terminate
    \/ NextRun

Spec == Init /\ [][Next]_vars

\* ---- sequences of completed runs ----

\* Runs that start from a readable or missing state file and are neither
\* terminated nor ended by an exception; the notifications of the watched
\* repository are followed.
InitPasses ==
    /\ cfg \in Settings
    /\ file \in {Absent} \cup {Document(Dump(s)) : s \in OldStates}
    /\ pc = "load"
    /\ i = 1
    /\ states = EmptyStates
    /\ posts = <<>>
    /\ run = 1
    /\ writes = 0
    /\ prevFile = file
    /\ lastFetched = [r \in Repos |-> None]
    /\ sameUpstream = FALSE
    /\ undelivered = [r \in Repos |-> FALSE]
    /\ savedSince = [r \in Repos |-> FALSE]
    /\ draftInterval = [r \in Repos |-> None]
    /\ render = None
    /\ visits = [r \in Repos |-> 0]
    /\ notified = None

NextPasses ==
    \/ LoadOk
    \/ LoadAbsent
    \/ DraftSkipped
    \/ NoNewRelease
    \/ NewReleaseNoWebhook
    \/ NotifySent
    \/ NotifyFailed
    \/ SaveOpen
    \/ SaveDump
    \/ NextRun

SpecPasses == InitPasses /\ [][NextPasses]_vars

\* ---- rendering of webhook.content (escape, lines 77-79; main, 134-146) ----

MaxName  == 2      \* longest release name
MaxParts == 2      \* most pieces a content template is put together from

Quote     == "\""
Backslash == "\\"
Newline   == "\n"

\* Characters release names and bodies are made of; a string is a sequence
\* of characters.
NameChars == {"a", "n", Quote, Backslash, Newline}

RECURSIVE Flatten(_)
Flatten(ss) == IF ss = <<>> THEN <<>> ELSE Head(ss) \o Flatten(Tail(ss))

\* json.dumps encodes one character of a str (ensure_ascii=False).
JsonChar(c) ==
    CASE c = Quote     -> <<Backslash, Quote>>
      [] c = Backslash -> <<Backslash, Backslash>>
      [] c = Newline   -> <<Backslash, "n">>
      [] OTHER         -> <<c>>

\* json.dumps(s, ensure_ascii=False, allow_nan=False) for a str s.
JsonDumps(s) ==
    <<Quote>> \o Flatten([k \in 1..Len(s) |-> JsonChar(s[k])]) \o <<Quote>>

\* Variant: the string goes into the template as it is.
escapeNothing(s) == s

escape(s) ==
    LET o == JsonDumps(s) IN SubSeq(o, 2, Len(o) - 1)

\* string.Template: idpattern (?a:[_a-z][_a-z0-9]*), case-insensitive.
IdStart == {"_", "a", "b", "d", "e", "g", "h", "i", "l", "m", "n", "o", "p",
            "r", "s", "t", "u", "x", "y"}
IdChars == IdStart \cup {"0", "1"}

\* The position after the identifier that starts at t[k] (greedy match).
RECURSIVE IdEnd(_, _)
IdEnd(t, k) == IF k <= Len(t) /\ t[k] \in IdChars THEN IdEnd(t, k + 1) ELSE k

Rendered(out) == [raised |-> FALSE, out |-> out]
Raised == [raised |-> TRUE, out |-> <<>>]
Then(out, rest) == IF rest.raised THEN Raised ELSE Rendered(out \o rest.out)

\* Template.pattern applied from position k of template t: at each "$" the
\* alternatives escaped, named, braced, invalid are tried in this order.
\* safe: a missing key or an invalid "$" stays as the matched text
\* (safe_substitute); otherwise it raises (substitute).
RECURSIVE Scan(_, _, _, _)
Scan(t, k, m, safe) ==
    IF k > Len(t) THEN Rendered(<<>>)
    ELSE IF t[k] # "$" THEN Then(<<t[k]>>, Scan(t, k + 1, m, safe))
    ELSE IF k < Len(t) /\ t[k + 1] = "$"
         THEN Then(<<"$">>, Scan(t, k + 2, m, safe))
    ELSE IF k < Len(t) /\ t[k + 1] \in IdStart
         THEN LET e  == IdEnd(t, k + 1)
                  id == SubSeq(t, k + 1, e - 1)
              IN  IF id \in DOMAIN m THEN Then(m[id], Scan(t, e, m, safe))
                  ELSE IF safe THEN Then(SubSeq(t, k, e - 1), Scan(t, e, m, safe))
                  ELSE Raised
    ELSE IF /\ k + 1 < Len(t) /\ t[k + 1] = "{" /\ t[k + 2] \in IdStart
            /\ IdEnd(t, k + 2) <= Len(t) /\ t[IdEnd(t, k + 2)] = "}"
         THEN LET e  == IdEnd(t, k + 2)
                  id == SubSeq(t, k + 2, e - 1)
              IN  IF id \in DOMAIN m THEN Then(m[id], Scan(t, e + 1, m, safe))
                  ELSE IF safe THEN Then(SubSeq(t, k, e), Scan(t, e + 1, m, safe))
                  ELSE Raised
    ELSE IF safe THEN Then(<<"$">>, Scan(t, k + 1, m, safe))
    ELSE Raised

\* Variant: Template(content).substitute(...), which raises on a key that is
\* missing and on an invalid placeholder.
Substitute(t, m) == Scan(t, 1, m, FALSE)

\* Template(content).safe_substitute(...)
SafeSubstitute(t, m) == Scan(t, 1, m, TRUE)

\* The release a notification is rendered for: name may be empty, body too.
tag_name == <<"v", "1">>
RenderReleases ==
    [name : SeqsUpTo(NameChars, MaxName), body : {<<>>, <<Quote, Backslash>>}]

\* The keyword arguments of safe_substitute (lines 138-146).
Keywords(release) ==
    LET kw == [repo_name    |-> <<"a", "/", "a">>,
               id           |-> <<"1">>,
               html_url     |-> <<"h", "/", "1">>,
               tag_name     |-> tag_name,
               name         |-> escape(Or(release.name, tag_name)),
               published_at |-> <<"1", "T", "0">>,
               body         |-> escape(Or(release.body, <<>>))]
    IN  (<<"r", "e", "p", "o", "_", "n", "a", "m", "e">> :> kw.repo_name)
     @@ (<<"i", "d">> :> kw.id)
     @@ (<<"h", "t", "m", "l", "_", "u", "r", "l">> :> kw.html_url)
     @@ (<<"t", "a", "g", "_", "n", "a", "m", "e">> :> kw.tag_name)
     @@ (<<"n", "a", "m", "e">> :> kw.name)
     @@ (<<"p", "u", "b", "l", "i", "s", "h", "e", "d", "_", "a", "t">> :> kw.published_at)
     @@ (<<"b", "o", "d", "y">> :> kw.body)

\* Pieces webhook.content is put together from.  kind and var say what the
\* piece is: a placeholder for var followed by the text tail, plain text, or
\* the escape "$$".
Piece(kind, var, tail, text) == [kind |-> kind, var |-> var, tail |-> tail, text |-> text]
Pieces ==
    { Piece("placeholder", <<"n", "a", "m", "e">>, <<>>, <<"$", "{", "n", "a", "m", "e", "}">>),
      Piece("placeholder", <<"b", "o", "d", "y">>, <<" ">>, <<"$", "b", "o", "d", "y", " ">>),
      Piece("placeholder", <<"x">>, <<>>, <<"$", "{", "x", "}">>),
      Piece("placeholder", <<"n", "a", "m", "e", "s">>, <<" ">>, <<"$", "n", "a", "m", "e", "s", " ">>),
      Piece("escape", <<>>, <<>>, <<"$", "$">>),
      Piece("text", <<>>, <<>>, <<"$", " ">>),
      Piece("text", <<>>, <<>>, <<"a">>) }

\* A JSON payload template with the name inside a string literal:
\* {"t":"${name}"}
JsonParts ==
    << Piece("text", <<>>, <<>>, <<"{", Quote, "t", Quote, ":", Quote>>),
       Piece("placeholder", <<"n", "a", "m", "e">>, <<>>, <<"$", "{", "n", "a", "m", "e", "}">>),
       Piece("text", <<>>, <<>>, <<Quote, "}">>) >>

Contents == (SeqsUpTo(Pieces, MaxParts) \ {<<>>}) \cup {JsonParts}

\* webhook.content as the str the configuration holds.
Text(parts) == Flatten([k \in 1..Len(parts) |-> parts[k].text])

InitRender ==
    /\ cfg = [repos |-> <<"a/a">>, skip_draft |-> TRUE, webhook |-> TRUE]
    /\ file = Absent
    /\ pc = "loop"
    /\ i = 1
    /\ states = EmptyStates
    /\ posts = <<>>
    /\ run = 1
    /\ writes = 0
    /\ prevFile = file
    /\ lastFetched = [r \in Repos |-> None]
    /\ sameUpstream = FALSE
    /\ undelivered = [r \in Repos |-> FALSE]
    /\ savedSince = [r \in Repos |-> FALSE]
    /\ draftInterval = [r \in Repos |-> None]
    /\ render \in [release : RenderReleases, parts : Contents, result : {None}]
    /\ visits = [r \in Repos |-> 0]
    /\ notified = Untracked

\* content = s.safe_substitute(...): lines 136-146.
RenderContent ==
    /\ render # None
    /\ render.result = None
    /\ render' = [render EXCEPT
                    !.result = SafeSubstitute(Text(render.parts), Keywords(render.release))]
    /\ UNCHANGED <<cfg, file, pc, i, states, posts, run, writes, prevFile,
                   lastFetched, sameUpstream, undelivered, savedSince,
                   draftInterval,
                   visits,
                   notified>>

NextRender == RenderContent

SpecRender == InitRender /\ [][NextRender]_vars

\* ======================= properties =======================

\* The loop body ran for cfg.repos[i] and control is back at the loop head.
Iterated == pc = "loop" /\ i' = i + 1

\* This step called httpx.post.
Dispatched == Len(posts') = Len(posts) + 1

\* The release the iteration of this step fetched.
fetched == lastFetched'[repo_name]

\* The entry the specification expects for a fetched snapshot: id, url,
\* tagName, displayName (tagName when the source gives no name), publishedAt.
Projection(rel) ==
    [id |-> rel.id, html_url |-> rel.html_url, tag_name |-> rel.tag_name,
     name |-> IF rel.name = <<>> THEN rel.tag_name ELSE rel.name,
     published_at |-> rel.published_at]

SomeFailedPost == \E k \in 1..Len(posts) : ~posts[k].ok

\* The repository processed last, and what the state file holds.
last_repo == cfg.repos[i - 1]
Stored == IF file.kind = "ok" THEN Parse(file.doc) ELSE EmptyStates

\* C1 - Monotonicity: with a webhook configured, a prior entry published at
\* T1 and a fetched, non-skipped release published at T2, the iteration
\* posts a notification iff T2 > T1, and in every case overwrites the entry
\* with the current snapshot.
C1_Monotonicity ==
    [][ ( /\ Iterated
          /\ cfg.webhook
          /\ repo_name \in DOMAIN states
          /\ ~(cfg.skip_draft /\ fetched.draft) )
        => /\ Dispatched <=> fetched.published_at > states[repo_name].published_at
           /\ ~Dispatched => posts' = posts
           /\ repo_name \in DOMAIN states'
           /\ states'[repo_name] = Projection(fetched) ]_vars

\* A stored entry met an older release: no post, entry overwritten.
C1_Witness ==
    /\ pc = "loop" /\ i = 2 /\ cfg.webhook
    /\ last_repo \in DOMAIN Stored
    /\ lastFetched[last_repo] # None
    /\ ~(cfg.skip_draft /\ lastFetched[last_repo].draft)
    /\ Stored[last_repo].published_at > lastFetched[last_repo].published_at
    /\ posts = <<>>
    /\ Get(states, last_repo) = Projection(lastFetched[last_repo])

\* C2 - First-observation silence: a repository without a prior entry whose
\* fetched release is not draft-skipped gets the release recorded and no
\* notification is posted for it.
C2_FirstObservationSilent ==
    [][ ( /\ Iterated
          /\ repo_name \notin DOMAIN states
          /\ ~(cfg.skip_draft /\ fetched.draft) )
        => /\ ~Dispatched
           /\ Get(states', repo_name) = Projection(fetched) ]_vars

\* C3 - Draft exclusion: with skip_draft on and a draft fetched, the state
\* map and the posts stay exactly as they were, whatever the prior entry.
C3_DraftExclusion ==
    [][ (Iterated /\ cfg.skip_draft /\ fetched.draft)
        => states' = states /\ posts' = posts ]_vars

\* A draft was skipped over an existing entry that is not the draft's.
C3_Witness ==
    /\ pc = "loop" /\ i > 1
    /\ cfg.skip_draft
    /\ lastFetched[last_repo] # None /\ lastFetched[last_repo].draft
    /\ Get(states, last_repo) # None
    /\ Get(states, last_repo) # Projection(lastFetched[last_repo])

\* C4 - Fetch isolation: no run is ended by a failed fetch; the pass goes on
\* with the later repositories and the final save.
C4_FetchIsolation == pc # "fetch_failed"

\* Every watched repository has an entry in the state file, so every post of
\* the run before its save is for a release newer than a stored entry.
AllStored == \A k \in 1..Len(cfg.repos) : cfg.repos[k] \in DOMAIN Stored

\* C5 - Dispatch isolation: a run in which a delivery failed is not ended by
\* an exception; it goes on through the remaining repositories to the save.
C5_DispatchIsolation == (SomeFailedPost /\ AllStored) => pc \notin Aborted

\* C6 - Idempotence: a completed pass that follows a completed pass and
\* fetched the same results saves the same state file and posts nothing.
C6_Idempotence ==
    (pc = "done" /\ sameUpstream) => (file = prevFile /\ posts = <<>>)

\* A second completed pass over unchanged upstream with a non-empty map.
C6_Witness ==
    /\ pc = "done" /\ run > 1 /\ sameUpstream /\ cfg.webhook
    /\ file.kind = "ok" /\ file.doc # {}
    /\ \A k \in 1..Len(cfg.repos) : lastFetched[cfg.repos[k]] # None

C8_SavedIsProjection ==
    pc = "done" =>
        /\ file.kind = "ok"
        /\ \A k \in 1..Len(cfg.repos) :
              LET f == lastFetched[cfg.repos[k]]
              IN  /\ f # None
                  /\ ~(cfg.skip_draft /\ f.draft)
                     => /\ cfg.repos[k] \in DOMAIN Parse(file.doc)
                        /\ Parse(file.doc)[cfg.repos[k]] = Projection(f)

\* A completed pass with a failed delivery for a release without a name.
C8_Witness ==
    /\ pc = "done" /\ SomeFailedPost
    /\ \E k \in 1..Len(cfg.repos) :
          /\ lastFetched[cfg.repos[k]].name = <<>>
          /\ ~lastFetched[cfg.repos[k]].draft
          /\ \E n \in 1..Len(posts) :
                /\ ~posts[n].ok
                /\ posts[n].repo = cfg.repos[k]
                /\ posts[n].id = lastFetched[cfg.repos[k]].id

\* C9 - Single end-of-pass save: the file is rewritten at most once per run,
\* exactly once in a run that completes, only after the last configured
\* repository has been processed; until then it is the file the run found.
C9_SingleSave ==
    /\ [](/\ writes <= 1
          /\ pc = "done" => writes = 1
          /\ pc \in {"load", "loop"} \cup Aborted => (file = prevFile /\ writes = 0))
    /\ [][ file' # file => (pc \in {"loop", "dump"} /\ i > Len(cfg.repos)) ]_vars

\* A run that processed two repositories, posted, and has not yet saved.
C9_Witness ==
    /\ pc = "loop" /\ i = 3 /\ Len(posts) = 2
    /\ file = prevFile /\ file.kind = "ok"
    /\ Dump(states) # file.doc

\* C10 - Corrupt state is fatal: an unparseable state file ends the run in
\* the load (nothing fetched, nothing posted, file untouched); an absent file
\* loads as the empty map and the run enters the loop.
C10_CorruptIsFatal ==
    /\ [][ (pc = "load" /\ file.kind = "corrupt")
           => (pc' \in {"load_failed", "killed"} /\ lastFetched' = lastFetched) ]_vars
    /\ [][ (pc = "load" /\ file.kind = "absent" /\ pc' # "killed")
           => (pc' = "loop" /\ states' = EmptyStates /\ file' = file) ]_vars
    /\ [](pc = "load_failed" =>
            /\ file = prevFile /\ file.kind = "corrupt"
            /\ i = 1 /\ posts = <<>> /\ writes = 0)
    /\ [][ pc = "load_failed"
           => (file' = file /\ posts' = <<>> /\ lastFetched' = lastFetched
               /\ pc' \notin {"loop", "dump", "done"}) ]_vars

\* A run that found the file left truncated by a killed run and gave up.
C10_Witness ==
    /\ pc = "load_failed" /\ run > 1
    /\ file.kind = "corrupt"
    /\ \E r \in Repos : lastFetched[r] # None

\* The state map after an iteration that fetched rel, as a function of the
\* map before, the repository, the release and skip_draft alone.
Recorded(before, repo, rel) ==
    IF cfg.skip_draft /\ rel.draft
    THEN before
    ELSE [r \in DOMAIN before \cup {repo} |->
            IF r = repo THEN Projection(rel) ELSE before[r]]

\* C11 - No sink configured: without a webhook no run ever posts, and every
\* iteration updates the state map by the rule that also holds with a
\* webhook (the update depends on the map, the release and skip_draft only).
C11_NoSink ==
    /\ [](~cfg.webhook => posts = <<>>)
    /\ [][ Iterated => states' = Recorded(states, repo_name, fetched) ]_vars

\* Without a webhook a run recorded a release newer than the stored entry,
\* saved it, and posted nothing.
C11_Witness ==
    /\ pc = "done" /\ ~cfg.webhook /\ posts = <<>>
    /\ prevFile.kind = "ok" /\ "a/a" \in DOMAIN Parse(prevFile.doc)
    /\ Stored["a/a"].published_at > Parse(prevFile.doc)["a/a"].published_at

Configured == {cfg.repos[k] : k \in 1..Len(cfg.repos)}

\* C12 - Entries are never deleted: every key of the loaded map is in the map
\* a completed run saves, and a key outside cfg.repos keeps its entry.
C12_NeverDeleted ==
    (pc = "done" /\ prevFile.kind = "ok") =>
        /\ file.kind = "ok"
        /\ \A r \in DOMAIN Parse(prevFile.doc) :
              /\ r \in DOMAIN Parse(file.doc)
              /\ r \notin Configured => Parse(file.doc)[r] = Parse(prevFile.doc)[r]

\* A completed run rewrote the watched key and kept the unwatched one.
C12_Witness ==
    /\ pc = "done" /\ prevFile.kind = "ok" /\ file.kind = "ok"
    /\ "b/b" \notin Configured
    /\ {"a/a", "b/b"} \subseteq DOMAIN Parse(prevFile.doc)
    /\ Parse(file.doc)["a/a"] # Parse(prevFile.doc)["a/a"]
    /\ Parse(file.doc)["b/b"] = Parse(prevFile.doc)["b/b"]

\* C13 - A draft interval does not suppress the later notification: with
\* skip_draft, the first published release fetched after one or more skipped
\* drafts is compared with the entry stored before the drafts, and with a
\* webhook it is posted when its published_at is strictly newer than that
\* entry's, and only then.
C13_DraftInterval ==
    [][ LET d == draftInterval[repo_name] IN
        (Iterated /\ d # None /\ d.during /\ d.entry # None /\ ~fetched.draft) =>
            /\ Get(states, repo_name) = d.entry
            /\ (cfg.webhook /\ fetched.published_at > d.entry.published_at)
                   => Dispatched
            /\ Dispatched => fetched.published_at > d.entry.published_at
      ]_vars

\* A run skipped a draft of the only repository; a later run fetched a
\* published release newer than the stored entry and posted it.
C13_Witness ==
    /\ Len(cfg.repos) = 1 /\ cfg.skip_draft /\ run > 1
    /\ pc = "loop" /\ i = 2
    /\ draftInterval["a/a"] # None
    /\ ~draftInterval["a/a"].during
    /\ draftInterval["a/a"].entry # None
    /\ Len(posts) = 1
    /\ posts[1].published_at > draftInterval["a/a"].entry.published_at

\* C14 - Single attempt per repository per run: a post is made only for a
\* repository that has had no post in this run yet, and only when a new
\* release was detected for it, that is when the map holds an entry for the
\* repository and the fetched release is strictly newer than that entry.
C14_SingleAttempt ==
    [][ Dispatched =>
          /\ \A k \in 1..Len(posts) : posts[k].repo # repo_name
          /\ repo_name \in DOMAIN states
          /\ fetched.published_at > states[repo_name].published_at
      ]_vars

\* C15 - The persisted state stays loadable: when a run has ended, by
\* completing, by an uncaught exception or by termination at any point, a
\* state file that this run found absent or parseable is absent or parseable.
C15_StaysLoadable ==
    (pc \in {"done", "killed"} \cup Aborted /\ prevFile.kind # "corrupt")
        => file.kind # "corrupt"

\* ---- what a receiver reads out of the payload (JSON, RFC 8259) ----

Parsed(value, next) == [ok |-> TRUE, value |-> value, next |-> next]
Malformed == [ok |-> FALSE, value |-> <<>>, next |-> 0]

\* The JSON string whose opening quote comes right before p[k]: its value
\* and the position after its closing quote.
RECURSIVE JsonString(_, _)
JsonString(p, k) ==
    LET Cons(c, rest) == IF rest.ok THEN Parsed(<<c>> \o rest.value, rest.next)
                         ELSE Malformed
    IN  IF k > Len(p) THEN Malformed
        ELSE IF p[k] = Quote THEN Parsed(<<>>, k + 1)
        ELSE IF p[k] = Newline THEN Malformed
        ELSE IF p[k] = Backslash
             THEN IF k = Len(p) THEN Malformed
                  ELSE IF p[k + 1] \in {Quote, Backslash}
                       THEN Cons(p[k + 1], JsonString(p, k + 2))
                  ELSE IF p[k + 1] = "n" THEN Cons(Newline, JsonString(p, k + 2))
                  ELSE Malformed
        ELSE Cons(p[k], JsonString(p, k + 1))

\* json.loads of a payload of the shape {"t":"..."}: the value of "t".
JsonLoads(p) ==
    LET head == <<"{", Quote, "t", Quote, ":", Quote>>
        str  == JsonString(p, Len(head) + 1)
    IN  IF Len(p) > Len(head) /\ SubSeq(p, 1, Len(head)) = head
           /\ str.ok /\ str.next = Len(p) /\ p[str.next] = "}"
        THEN str
        ELSE Malformed

\* C16 - Escaping round trip: the name rendered into the string literal of
\* the JSON template {"t":"${name}"} gives a payload that parses as JSON and
\* yields the name (release.name, or the tag name when that is empty)
\* unchanged; and escape(s) between quotes is the JSON encoding of s, which
\* a JSON parser reads back as s.
C16_RoundTrip ==
    (render # None /\ render.result # None /\ render.parts = JsonParts) =>
        LET name == Or(render.release.name, tag_name)
            Literal(s) == <<Quote>> \o escape(s) \o <<Quote>>
        IN  /\ ~render.result.raised
            /\ JsonLoads(render.result.out).ok
            /\ JsonLoads(render.result.out).value = name
            /\ \A s \in {name, render.release.body} :
                  JsonString(Literal(s), 2) = Parsed(s, Len(Literal(s)) + 1)

\* A name with a double quote and a backslash went through the JSON template.
C16_Witness ==
    /\ render # None /\ render.result # None /\ render.parts = JsonParts
    /\ render.release.name = <<Quote, Backslash>>
    /\ JsonLoads(render.result.out).value = <<Quote, Backslash>>

\* What the pieces of a template are to become: a placeholder that names a
\* keyword gives the keyword's value, the escape gives one "$", and
\* everything else (other placeholders, text) stays as written.
Expected(piece, m) ==
    CASE piece.kind = "placeholder" /\ piece.var \in DOMAIN m -> m[piece.var] \o piece.tail
      [] piece.kind = "escape" -> <<"$">>
      [] OTHER -> piece.text

\* C17 - Safe substitution: rendering a content template never raises; each
\* placeholder that names one of the seven keywords is replaced by its
\* value and each placeholder that names anything else stays in the output
\* as its literal text.
C17_SafeSubstitution ==
    (render # None /\ render.result # None) =>
        /\ ~render.result.raised
        /\ render.result.out =
              Flatten([k \in 1..Len(render.parts) |->
                          Expected(render.parts[k], Keywords(render.release))])

\* A template with a known and an unknown placeholder was rendered: the
\* output holds the value of the first and the text of the second.
C17_Witness ==
    /\ render # None /\ render.result # None
    /\ Len(render.parts) = 2
    /\ render.parts[1].var = <<"n", "a", "m", "e">>
    /\ render.parts[2].var = <<"x">>
    /\ render.release.name = <<"a", Quote>>
    /\ render.result.out = <<"a", Backslash, Quote, "$", "{", "x", "}">>

\* A step of the loop wrote the in-memory entry of repository r.
Wrote(r) == pc = "loop" /\ pc' = "loop" /\ Get(states', r) # Get(states, r)

\* C18 (as stated) - Each key is processed at most once per pass: for every
\* configured list, no repository has the loop body run for it more than
\* once in a run.
C18_AtMostOnce == \A r \in Repos : visits[r] <= 1

NoDuplicates(q) == \A j, k \in 1..Len(q) : q[j] = q[k] => j = k

\* C18 (amended) - When cfg.repos names no repository twice, the loop body
\* runs at most once per repository in a run, and the in-memory entry of a
\* repository is written only by that one run of the loop body.
C18_AtMostOncePerListing ==
    /\ [](NoDuplicates(cfg.repos) => \A r \in Repos : visits[r] <= 1)
    /\ [][ NoDuplicates(cfg.repos) =>
             \A r \in Repos : Wrote(r) => (r = repo_name /\ visits[r] = 0 /\ visits'[r] = 1)
         ]_vars

\* A run over two different repositories went through both and saved.
C18_Witness ==
    /\ pc = "done" /\ cfg.repos = <<"a/a", "b/b">>
    /\ visits = [r \in Repos |-> 1]
    /\ DOMAIN Stored = Repos

\* This step posts, for the watched repository, the release that a completed
\* earlier run already posted for it as a new release.
PostedAgain ==
    /\ Dispatched
    /\ repo_name = Watched
    /\ notified \notin {None, Untracked}
    /\ fetched.id = notified.id
    /\ fetched.published_at = notified.published_at

\* C19 (as stated) - No duplicate notification across passes: a release that
\* a completed run posted as a new release of a repository is not posted
\* again by any later run, whatever was fetched in between (shown for lists
\* that name no repository twice).
C19_NoDuplicateEver ==
    [][ ~(PostedAgain /\ NoDuplicates(cfg.repos)) ]_vars

\* C19 (amended) - A release that a completed run posted is not posted again
\* by a later run as long as no fetch for the repository in between returned
\* an older release that was recorded.
C19_NoDuplicateWithoutRegression ==
    [][ ~(PostedAgain /\ ~notified.dipped) ]_vars

\* A completed run posted a release; a later run fetched that same release
\* again, with nothing older in between, and posted nothing.
C19_Witness ==
    /\ pc = "loop" /\ i = 2 /\ run > 1 /\ cfg.webhook
    /\ notified \notin {None, Untracked} /\ ~notified.dipped
    /\ lastFetched[Watched] # None
    /\ lastFetched[Watched].id = notified.id
    /\ lastFetched[Watched].published_at = notified.published_at
    /\ posts = <<>>

====
